---- MODULE Spec2Model ----
(***************************************************************************)
(* A model of the nutrition-lookup backend (src/app.py): the deficiency    *)
(* scorer, the food recommender, the /analyze aggregation loop and the     *)
(* /consult and /chat routes with their response parser.                   *)
(*                                                                         *)
(* Numbers.  The program computes on Python floats.  The model computes    *)
(* the same expressions exactly, on integers:                              *)
(*   - nutrient amounts held "in milligrams" are integers in micrograms    *)
(*     (thousandths of a milligram);                                       *)
(*   - a per-100g value of the food database is an integer in thousandths  *)
(*     of its own unit;                                                    *)
(*   - a value rounded to 2 decimals is an integer in hundredths;          *)
(*   - BMI is the fraction num/den.                                        *)
(* Binary rounding of the floats is modelled where the sum of the amounts  *)
(* of several items is compared with the amount of one item (SpecFloat):   *)
(* there every operation is the IEEE 754 binary64 operation.               *)
(*                                                                         *)
(* Strings on which the program computes (strip, lower, substring search,  *)
(* the brace-span regular expression) are sequences of one-character       *)
(* strings; dictionary keys and table entries are plain strings.           *)
(***************************************************************************)
EXTENDS Integers, Sequences, FiniteSets, TLC

VARIABLES
    GEMINI_API_KEY,   \* module global: TRUE when the key is set
    genai,            \* module global: TRUE when the SDK imported
    route,            \* the handler serving the request, or the function under test
    pc,               \* the handler's position
    data,             \* the request's JSON body
    city, gender, height, weight,   \* the parsed /analyze inputs
    weather,          \* get_weather's result (None or a snapshot)
    i,                \* index in data.items of the item the loop is at
    nut,              \* nutrient entries of the current lookup not yet folded in
    totals_mg,        \* running totals: canonical key -> micrograms
    baseline,         \* calculate_deficiency's baselines after the BMI adjustment
    defic, rec,       \* calculate_deficiency's and recommend_foods' results
    calls,            \* log of the outbound calls issued, with what each returned
    raw_text,         \* the collaborator's reply text as the handler holds it
    response          \* the response sent (NoResponse until the request ends)

vars == << GEMINI_API_KEY, genai, route, pc, data, city, gender, height, weight,
           weather, i, nut, totals_mg, baseline, defic, rec, calls, raw_text,
           response >>

\* Python's None where a string is expected: a sequence that is no string of
\* characters
None == << "None" >>

\* Python's None where a weather snapshot is expected
NoWeather == [none |-> TRUE]

\* no response sent yet
NoResponse == [status |-> 0]

\* no request body
NoData == [none |-> TRUE]

\* ---------------------------------------------------------------------------
\* Strings as character sequences
\* ---------------------------------------------------------------------------
UpperChars == << "A","B","C","D","E","F","G","H","I","J","K","L","M",
                 "N","O","P","Q","R","S","T","U","V","W","X","Y","Z" >>
LowerChars == << "a","b","c","d","e","f","g","h","i","j","k","l","m",
                 "n","o","p","q","r","s","t","u","v","w","x","y","z" >>

\* str.lower() on one character
LowerChar(c) ==
    IF \E k \in 1..Len(UpperChars) : UpperChars[k] = c
    THEN LowerChars[CHOOSE k \in 1..Len(UpperChars) : UpperChars[k] = c]
    ELSE c

\* str.lower()
Lower(s) == [k \in 1..Len(s) |-> LowerChar(s[k])]

\* str.strip(): leading and trailing blanks removed
Strip(s) ==
    LET nb == {k \in 1..Len(s) : s[k] # " "}
    IN  IF nb = {} THEN << >>
        ELSE LET lo == CHOOSE k \in nb : \A m \in nb : k <= m
                 hi == CHOOSE k \in nb : \A m \in nb : k >= m
             IN  SubSeq(s, lo, hi)

\* Python's `sub in s` on strings
Contains(s, sub) ==
    \E k \in 0..(Len(s) - Len(sub)) : SubSeq(s, k + 1, k + Len(sub)) = sub

\* ---------------------------------------------------------------------------
\* Unit Normalizer and Nutrient Matcher
\* ---------------------------------------------------------------------------
\* amount in thousandths of `unit`; the result in thousandths of a milligram
convert_to_mg(amount, unit) ==
    LET u == Lower(IF unit = None THEN << >> ELSE unit)
    IN  IF u \in { <<"g">>, <<"g","r","a","m">>, <<"g","r","a","m","s">> }
        THEN amount * 1000
        ELSE amount

CanonicalKeys == << "Protein", "Vitamin C", "Iron", "Calcium", "Fiber" >>
Canonical == { CanonicalKeys[k] : k \in 1..Len(CanonicalKeys) }

\* the substrings of each canonical key, in the table's order
NUTRIENT_KEY_MAP ==
    << [friendly |-> "Protein",
        substrings |-> { <<"p","r","o","t","e","i","n">> }],
       [friendly |-> "Vitamin C",
        substrings |-> { <<"v","i","t","a","m","i","n"," ","c">>,
                         <<"a","s","c","o","r","b","i","c"," ","a","c","i","d">> }],
       [friendly |-> "Iron",
        substrings |-> { <<"i","r","o","n">> }],
       [friendly |-> "Calcium",
        substrings |-> { <<"c","a","l","c","i","u","m">> }],
       [friendly |-> "Fiber",
        substrings |-> { <<"f","i","b","e","r">>,
                         <<"d","i","e","t","a","r","y"," ","f","i","b","e","r">> }] >>

\* matched_key = None
NoKey == ""

\* the loop of analyze over NUTRIENT_KEY_MAP: the first key one of whose
\* substrings occurs in the lower-cased name, or None
MatchedKey(full_name) ==
    LET low  == Lower(full_name)
        hits == {k \in 1..Len(NUTRIENT_KEY_MAP) :
                    \E s \in NUTRIENT_KEY_MAP[k].substrings : Contains(low, s)}
    IN  IF hits = {} THEN NoKey
        ELSE NUTRIENT_KEY_MAP[CHOOSE k \in hits : \A m \in hits : k <= m].friendly

\* ---------------------------------------------------------------------------
\* Deficiency Scorer
\* ---------------------------------------------------------------------------
\* round(x, 2): x in units of 1/(100*q); the result in hundredths, half to even
Round2(x, q) ==
    LET lo == x \div q
        r  == x % q
    IN  IF 2 * r < q THEN lo
        ELSE IF 2 * r > q THEN lo + 1
        ELSE IF lo % 2 = 0 THEN lo ELSE lo + 1

\* dict.get(key, 0.0) on the totals
GetTotal(totals, key) == IF key \in DOMAIN totals THEN totals[key] ELSE 0

\* the unadjusted baseline of each nutrient, in micrograms
\* (Protein 50 g, Vitamin C 90 mg, Iron 18/8 mg, Calcium 1000 mg, Fiber 30 g)
Baseline(g) ==
    [ Protein    |-> 50 * 1000 * 1000,
      Fiber      |-> 30 * 1000 * 1000 ] @@
    ( "Vitamin C" :> 90 * 1000 ) @@
    [ Iron       |-> IF Lower(g) = <<"f","e","m","a","l","e">> THEN 18 * 1000 ELSE 8 * 1000,
      Calcium    |-> 1000 * 1000 ]

\* bmi = weight_kg / ((height_cm / 100.0) ** 2) if height_cm > 0 else 0
Bmi(h, w) == IF h > 0 THEN [num |-> w * 10000, den |-> h * h]
                      ELSE [num |-> 0, den |-> 1]

\* `bmi and bmi < 18.5`: bmi is truthy (not zero) and below 18.5
Underweight(bmi) == bmi.num # 0 /\ 2 * bmi.num < 37 * bmi.den

\* `bmi and bmi > 25`, reached only when the first test failed
Overweight(bmi) == bmi.num # 0 /\ bmi.num > 25 * bmi.den

\* the factor applied to every baseline, in tenths: 1.10, 0.90 or 1
BmiFactor(h, w) ==
    IF Underweight(Bmi(h, w)) THEN 11
    ELSE IF Overweight(Bmi(h, w)) THEN 9
    ELSE 10

\* the baselines after the BMI adjustment, in micrograms
AdjustedBaseline(g, h, w) ==
    [k \in Canonical |-> (Baseline(g)[k] * BmiFactor(h, w)) \div 10]

\* `have < need * 0.6`
Below60Mut(have, need) == have * 10 <= need * 6
Below60(have, need) == have * 10 < need * 6

\* the amount reported for a flagged nutrient: need - have
ShortfallMut(have, need) == (need * 6) \div 10 - have
Shortfall(have, need) == need - have

\* f"{round(need_mg/1000.0, 2)} g" and f"{round(need_more, 2)} mg":
\* the number in hundredths of the unit, and the suffix
FormatNeed(key, need_ug) ==
    IF key \in {"Protein", "Fiber"}
    THEN [key |-> key, amount |-> Round2(need_ug, 10000), unit |-> "g"]
    ELSE [key |-> key, amount |-> Round2(need_ug, 10), unit |-> "mg"]

\* the order in which calculate_deficiency tests the nutrients, which is the
\* insertion order of its result
ScoringOrder == << "Protein", "Fiber", "Vitamin C", "Iron", "Calcium" >>

\* the result dict as the sequence of its entries in insertion order
calculate_deficiency(totals, g, h, w) ==
    LET adjusted == AdjustedBaseline(g, h, w)
        flagged(k) == Below60(GetTotal(totals, k), adjusted[k])
        entry(k) == FormatNeed(k, Shortfall(GetTotal(totals, k), adjusted[k]))
        F[n \in 0..Len(ScoringOrder)] ==
            IF n = 0 THEN << >>
            ELSE IF flagged(ScoringOrder[n])
                 THEN Append(F[n - 1], entry(ScoringOrder[n]))
                 ELSE F[n - 1]
    IN  F[Len(ScoringOrder)]

\* ---------------------------------------------------------------------------
\* Food Recommender
\* ---------------------------------------------------------------------------
\* the table `base` of recommend_foods
RecommendBase ==
    [ Protein |-> << <<"Chicken", "27 g">>, <<"Eggs", "13 g">>, <<"Paneer", "18 g">> >>,
      Iron    |-> << <<"Spinach", "2.7 mg">>, <<"Liver", "6.5 mg">>, <<"Beans", "3.7 mg">> >>,
      Calcium |-> << <<"Milk", "120 mg">>, <<"Curd", "80 mg">>, <<"Almonds", "75 mg">> >>,
      Fiber   |-> << <<"Oats", "10 g">>, <<"Apple", "4.5 g">>, <<"Carrots", "3 g">> >> ] @@
    ( "Vitamin C" :> << <<"Orange", "53 mg">>, <<"Guava", "200 mg">>, <<"Kiwi", "90 mg">> >> )

\* base.get(n, [])
BaseGet(n) == IF n \in DOMAIN RecommendBase THEN RecommendBase[n] ELSE << >>

\* `weather and weather.get("temp", 0) > 30`; temp is in tenths of a degree
IsHot(w) ==
    /\ w # NoWeather
    /\ (IF "temp" \in DOMAIN w THEN w.temp ELSE 0) > 300

TempFoodsMut(w) == IF IsHot(w) THEN << "Yogurt", "Cucumber" >> ELSE << "Eggs", "Soup" >>
TempFoods(w) == IF IsHot(w) THEN << "Cucumber", "Yogurt" >> ELSE << "Soup", "Eggs" >>

\* rec after both loops, before the slice: the table foods of every key of
\* defic in its order, then the two weather foods
CandidatesMut(d, w) ==
    LET T[n \in 0..Len(d)] ==
            IF n = 0 THEN << >> ELSE T[n - 1] \o BaseGet(d[n].key)
        tf == TempFoods(w)
    IN  [k \in 1..Len(tf) |-> << tf[k], "-", "-" >>] \o T[Len(d)]
Candidates(d, w) ==
    LET T[n \in 0..Len(d)] ==
            IF n = 0 THEN << >> ELSE T[n - 1] \o BaseGet(d[n].key)
        tf == TempFoods(w)
    IN  T[Len(d)] \o [k \in 1..Len(tf) |-> << tf[k], "-", "-" >>]

\* the slice bound of rec[:10]
RecommendCap == 10

\* seq[:n]
Take(seq, n) == SubSeq(seq, 1, IF Len(seq) < n THEN Len(seq) ELSE n)

recommend_foodsMut(d, w) == Take(Candidates(d, w), RecommendCap + 1)
recommend_foods(d, w) == Take(Candidates(d, w), RecommendCap)

\* ---------------------------------------------------------------------------
\* The scorer and the recommender applied to drawn inputs
\* ---------------------------------------------------------------------------
Female == << "f","e","m","a","l","e" >>
Genders == { Female, << "F","e","m","a","l","e" >>, << "m","a","l","e" >> }

\* (height_cm, weight_kg): no height, negative height, underweight, normal,
\* overweight, zero and negative weight, BMI exactly 18.5 and exactly 25
HeightWeights == { <<0, 70>>, <<0 - 175, 70>>, <<175, 50>>, <<175, 70>>, <<175, 90>>,
                   <<175, 0>>, <<175, 0 - 50>>, <<200, 74>>, <<200, 100>> }

\* a total of nutrient k: `permille` thousandths of its male baseline, plus d
\* micrograms
LevelTotal(k, permille, d) == (Baseline(<< "m","a","l","e" >>)[k] \div 1000) * permille + d

\* 54%, 60% and 66% of the baseline (the thresholds under the three BMI
\* factors), the same for the female Iron baseline, and a negative total
Permilles == { 0 - 100, 540, 600, 660, 1215, 1350, 1485 }

\* exactly at the level, 0.005 mg below it, 0.005 g below it
Offsets == { 0 - 5000, 0 - 5, 0 }

\* the totals maps drawn: each key absent, at the level drawn, or at three
\* times its baseline
TotalsMaps ==
    { [k \in { c \in Canonical : how[c] # "absent" } |->
            IF how[k] = "level" THEN LevelTotal(k, pm, d) ELSE LevelTotal(k, 3000, 0)] :
        how \in [Canonical -> {"absent", "level", "ample"}],
        pm \in Permilles, d \in Offsets }

\* temp in tenths of a degree Celsius
Snapshot(t) == [condition |-> "Clear", temp |-> t, humidity |-> 40]
Weathers == { NoWeather, Snapshot(250), Snapshot(300), Snapshot(301), Snapshot(350),
              [condition |-> "Clear"] }

Injective(f) == \A a, b \in DOMAIN f : a # b => f[a] # f[b]

\* the deficiency maps drawn: any keys, a foreign one included, in any order
DeficKeys == Canonical \cup { "Zinc" }
DeficMaps ==
    { [n \in DOMAIN s |-> [key |-> s[n], amount |-> 100, unit |-> "mg"]] :
        s \in { t \in UNION { [1..n -> DeficKeys] : n \in 0..Cardinality(DeficKeys) } :
                    Injective(t) } }

NoBaseline == [k \in Canonical |-> 0]

InitScorer ==
    /\ GEMINI_API_KEY = FALSE /\ genai = FALSE
    /\ route = "scorer"
    /\ data = NoData /\ city = << >> /\ i = 0 /\ nut = << >>
    /\ baseline = NoBaseline /\ rec = << >> /\ calls = << >>
    /\ raw_text = None /\ response = NoResponse
    /\ \/ /\ pc = "score"
          /\ totals_mg \in TotalsMaps
          /\ gender \in Genders
          /\ \E hw \in HeightWeights : height = hw[1] /\ weight = hw[2]
          /\ weather = NoWeather
          /\ defic = << >>
       \/ /\ pc = "recommend"
          /\ totals_mg = << >>
          /\ gender = << "m","a","l","e" >> /\ height = 0 /\ weight = 0
          /\ weather \in Weathers
          /\ defic \in DeficMaps

\* calculate_deficiency(total_nutrients_mg, gender, height_cm, weight_kg)
ScoreStep ==
    /\ route = "scorer" /\ pc = "score"
    /\ baseline' = AdjustedBaseline(gender, height, weight)
    /\ defic' = calculate_deficiency(totals_mg, gender, height, weight)
    /\ pc' = "scored"
    /\ UNCHANGED << GEMINI_API_KEY, genai, route, data, city, gender, height, weight,
                    weather, i, nut, totals_mg, rec, calls, raw_text, response >>

\* recommend_foods(defic, weather)
RecommendStep ==
    /\ route = "scorer" /\ pc = "recommend"
    /\ rec' = recommend_foods(defic, weather)
    /\ pc' = "recommended"
    /\ UNCHANGED << GEMINI_API_KEY, genai, route, data, city, gender, height, weight,
                    weather, i, nut, totals_mg, baseline, defic, calls, raw_text,
                    response >>

NextScorer == ScoreStep \/ RecommendStep

SpecScorer == InitScorer /\ [][NextScorer]_vars

\* ---------------------------------------------------------------------------
\* JSON values and the outbound collaborators' replies
\* ---------------------------------------------------------------------------
\* a JSON number, a JSON string that float() rejects, JSON null / a missing key
Num(n) == [num |-> n]
Unparseable == [str |-> << "a","b","c" >>]
JsonNull == [null |-> TRUE]

\* `float(x or 0)` inside try/except: 0.0 for a missing, null or unparseable x
ParseFloat(x) == IF "num" \in DOMAIN x THEN x.num ELSE 0

\* `(x or "").strip()`
ParseName(x) == Strip(IF x = None THEN << >> ELSE x)

\* one entry of a food record's foodNutrients list
Entry(name, value, unit) == [nutrientName |-> name, value |-> value, unitName |-> unit]

\* the food database's replies: the request raised (network, non-2xx, bad
\* JSON), no food found, or the first food's nutrient list
FoodFail == [ok |-> FALSE]
FoodEmpty == [ok |-> TRUE, foods |-> << >>]
FoodOk(entries) == [ok |-> TRUE, foods |-> << [foodNutrients |-> entries] >>]

\* nutrients[key] = v on a dict held as the sequence of its entries
DictSet(d, v) ==
    IF \E n \in DOMAIN d : d[n].name = v.name
    THEN [n \in DOMAIN d |-> IF d[n].name = v.name THEN v ELSE d[n]]
    ELSE Append(d, v)

\* get_food_nutrients: {} when the request raised or found no food, else the
\* entries with a name and a value float() accepts, keyed by the stripped name
get_food_nutrients(resp) ==
    IF ~resp.ok THEN << >>
    ELSE IF resp.foods = << >> THEN << >>
    ELSE LET list == resp.foods[1].foodNutrients
             keep(n) == /\ n.nutrientName # None
                        /\ n.nutrientName # << >>
                        /\ n.value # JsonNull
                        /\ "num" \in DOMAIN n.value
             D[m \in 0..Len(list)] ==
                 IF m = 0 THEN << >>
                 ELSE IF keep(list[m])
                      THEN DictSet(D[m - 1],
                                   [name |-> Strip(list[m].nutrientName),
                                    val  |-> list[m].value.num,
                                    unit |-> IF list[m].unitName = None THEN << >>
                                             ELSE list[m].unitName])
                      ELSE D[m - 1]
         IN  D[Len(list)]

\* the weather provider's replies: the request raised, a body without
\* "current", or a body with the current conditions
WeatherFail == [ok |-> FALSE]
WeatherMalformed == [ok |-> TRUE]
WeatherOk(t) == [ok |-> TRUE, current |-> [text |-> "Clear", temp_c |-> t, humidity |-> 40]]

\* get_weather: None on any exception, else the snapshot
get_weatherMut(resp) ==
    IF ~resp.ok THEN NoWeather
    ELSE IF "current" \notin DOMAIN resp THEN [condition |-> "", temp |-> 0, humidity |-> 0]
    ELSE [condition |-> resp.current.text, temp |-> resp.current.temp_c,
          humidity |-> resp.current.humidity]
get_weather(resp) ==
    IF ~resp.ok \/ "current" \notin DOMAIN resp THEN NoWeather
    ELSE [condition |-> resp.current.text, temp |-> resp.current.temp_c,
          humidity |-> resp.current.humidity]

\* ---------------------------------------------------------------------------
\* The /analyze route
\* ---------------------------------------------------------------------------
\* the largest number of items in a request body
MaxItems == 2

Banana == << "b","a","n","a","n","a" >>
Male == << "m","a","l","e" >>

\* the items drawn: a missing name, a blank name, an unparseable, zero or
\* negative quantity, and three good items
ItemChoices ==
    { [name |-> None, qty |-> Num(100)],
      [name |-> << " ", " " >>, qty |-> Num(100)],
      [name |-> Banana, qty |-> Unparseable],
      [name |-> Banana, qty |-> Num(0)],
      [name |-> Banana, qty |-> Num(0 - 100)],
      [name |-> Banana, qty |-> Num(50)],
      [name |-> Banana, qty |-> Num(100)],
      [name |-> << " " >> \o Banana, qty |-> Num(150)] }

ItemLists == UNION { [1..n -> ItemChoices] : n \in 0..MaxItems }

\* the bodies drawn: city missing, blank or given
AnalyzeBodies ==
    { [city |-> c, items |-> its, gender |-> p[1], height |-> p[2], weight |-> p[3]] :
        c \in { None, << " ", " " >>, << "P","u","n","e"," " >> },
        its \in ItemLists,
        p \in { << Male, Num(175), Num(70) >>, << Female, Unparseable, Num(60) >> } }

\* the food database's replies drawn; values are thousandths of the unit per
\* 100 g (Protein 1.1 g, Fiber 2.6 g, ...)
FoodResponses ==
    { FoodFail,
      FoodEmpty,
      FoodOk(<< Entry(<< "P","r","o","t","e","i","n" >>, Num(1100), << "G" >>),
                Entry(<< "F","i","b","e","r",","," ","t","o","t","a","l" >>, Num(2600),
                      << "g" >>) >>),
      FoodOk(<< Entry(<< "V","i","t","a","m","i","n"," ","C" >>, Num(8700), << "M","G" >>),
                Entry(<< "P","o","t","a","s","s","i","u","m" >>, Num(358000), << "M","G" >>),
                Entry(<< "C","a","l","c","i","u","m" >>, JsonNull, << "M","G" >>) >>),
      FoodOk(<< Entry(<< "I","r","o","n",","," ","F","e" >>, Num(0 - 300), None),
                Entry(<< "A","s","c","o","r","b","i","c"," ","a","c","i","d" >>,
                      Unparseable, << "m","g" >>) >>) }

WeatherResponses == { WeatherFail, WeatherMalformed, WeatherOk(300), WeatherOk(350) }

\* `if not name or qty_g <= 0: continue`
ItemSkippedMut(it) == ParseName(it.name) = << >> \/ ParseFloat(it.qty) < 0
ItemSkipped(it) == ParseName(it.name) = << >> \/ ParseFloat(it.qty) <= 0

\* actual = float(val) * (qty_g / 100.0)
Scale(val, qty) == (val * qty) \div 100

\* the body of the inner loop of analyze for one nutrient entry
FoldEntryInto(totals, e, qty) ==
    LET key == MatchedKey(e.name)
    IN  IF key = NoKey THEN totals
        ELSE [k \in DOMAIN totals \cup {key} |->
                GetTotal(totals, k)
                + IF k = key THEN convert_to_mg(Scale(e.val, qty), e.unit) ELSE 0]

\* f"{round(v/1000.0, 2)} g" and f"{round(v, 2)} mg" of human_totals
human_totals(totals) ==
    [k \in DOMAIN totals |->
        IF k \in {"Protein", "Fiber"}
        THEN [amount |-> Round2(totals[k], 10000), unit |-> "g"]
        ELSE [amount |-> Round2(totals[k], 10), unit |-> "mg"]]

\* analyze, lines 229-243: the body is parsed; without a city the request
\* ends with 400
AnalyzeBegin ==
    /\ pc = "idle"
    /\ \E body \in AnalyzeBodies :
          /\ data' = body
          /\ city' = ParseName(body.city)
          /\ gender' = body.gender
          /\ height' = ParseFloat(body.height)
          /\ weight' = ParseFloat(body.weight)
    /\ route' = "analyze"
    /\ IF city' = << >>
       THEN /\ response' = [status |-> 400, error |-> "City required"]
            /\ pc' = "done"
       ELSE /\ response' = response
            /\ pc' = "weather"
    /\ UNCHANGED << GEMINI_API_KEY, genai, weather, i, nut, totals_mg, baseline,
                    defic, rec, calls, raw_text >>

\* analyze, lines 245-249: the weather lookup; without a snapshot the request
\* ends with 404
AnalyzeWeather ==
    /\ route = "analyze" /\ pc = "weather"
    /\ \E resp \in WeatherResponses :
          /\ calls' = Append(calls, [api |-> "weather", item |-> 0, got |-> resp])
          /\ weather' = get_weather(resp)
    /\ IF weather' = NoWeather
       THEN /\ response' = [status |-> 404, error |-> "Weather data not found for city"]
            /\ pc' = "done"
            /\ UNCHANGED << i, totals_mg >>
       ELSE /\ response' = response
            /\ totals_mg' = << >>
            /\ i' = 1
            /\ pc' = "loop"
    /\ UNCHANGED << GEMINI_API_KEY, genai, route, data, city, gender, height, weight,
                    nut, baseline, defic, rec, raw_text >>

\* analyze, lines 251-258: an item without a name or with a quantity that
\* is not positive is passed over
AnalyzeSkipItem ==
    /\ route = "analyze" /\ pc = "loop"
    /\ i <= Len(data.items)
    /\ ItemSkipped(data.items[i])
    /\ i' = i + 1
    /\ UNCHANGED << GEMINI_API_KEY, genai, route, pc, data, city, gender, height,
                    weight, weather, nut, totals_mg, baseline, defic, rec, calls,
                    raw_text, response >>

\* analyze, line 259: the food lookup of the item
AnalyzeLookupMut ==
    /\ route = "analyze" /\ pc = "loop"
    /\ i <= Len(data.items)
    /\ ~ItemSkipped(data.items[i])
    /\ \E resp \in FoodResponses :
          /\ calls' = Append(calls, [api |-> "food", item |-> i, got |-> resp])
          /\ nut' = get_food_nutrients(resp)
    /\ IF nut' = << >>
       THEN /\ i' = IF calls[Len(calls)].item = i THEN i + 1 ELSE i
            /\ pc' = "loop"
       ELSE i' = i /\ pc' = "fold"
    /\ UNCHANGED << GEMINI_API_KEY, genai, route, data, city, gender, height, weight,
                    weather, totals_mg, baseline, defic, rec, raw_text, response >>
AnalyzeLookup ==
    /\ route = "analyze" /\ pc = "loop"
    /\ i <= Len(data.items)
    /\ ~ItemSkipped(data.items[i])
    /\ \E resp \in FoodResponses :
          /\ calls' = Append(calls, [api |-> "food", item |-> i, got |-> resp])
          /\ nut' = get_food_nutrients(resp)
    /\ IF nut' = << >>
       THEN i' = i + 1 /\ pc' = "loop"
       ELSE i' = i /\ pc' = "fold"
    /\ UNCHANGED << GEMINI_API_KEY, genai, route, data, city, gender, height, weight,
                    weather, totals_mg, baseline, defic, rec, raw_text, response >>

\* analyze, lines 260-274: one nutrient entry of the item is folded in
AnalyzeFold ==
    /\ route = "analyze" /\ pc = "fold"
    /\ totals_mg' = FoldEntryInto(totals_mg, Head(nut), ParseFloat(data.items[i].qty))
    /\ nut' = Tail(nut)
    /\ IF nut' = << >>
       THEN i' = i + 1 /\ pc' = "loop"
       ELSE i' = i /\ pc' = "fold"
    /\ UNCHANGED << GEMINI_API_KEY, genai, route, data, city, gender, height, weight,
                    weather, baseline, defic, rec, calls, raw_text, response >>

\* analyze, lines 276-291: the deficiencies, the recommendations and the
\* success payload
AnalyzeFinish ==
    /\ route = "analyze" /\ pc = "loop"
    /\ i > Len(data.items)
    /\ baseline' = AdjustedBaseline(gender, height, weight)
    /\ defic' = calculate_deficiency(totals_mg, gender, height, weight)
    /\ rec' = recommend_foods(defic', weather)
    /\ response' = [status |-> 200, weather |-> weather,
                    total_nutrients |-> human_totals(totals_mg),
                    deficient |-> defic', recommendations |-> rec']
    /\ pc' = "done"
    /\ UNCHANGED << GEMINI_API_KEY, genai, route, data, city, gender, height, weight,
                    weather, i, nut, totals_mg, calls, raw_text >>

\* ---------------------------------------------------------------------------
\* The Response Parser and the /consult and /chat routes
\* ---------------------------------------------------------------------------
\* the longest reply text drawn
MaxTextLen == 3

\* the characters of a reply text: braces, a blank, "s" standing for the
\* member "summary":"ok", and "x" for any other character
TextChars == { "{", "}", " ", "s", "x" }
ReplyTexts == UNION { [1..n -> TextChars] : n \in 0..MaxTextLen }

\* re.search(r"\{.*\}", text, flags=re.S): the span from the first "{" to the
\* last "}" after it, or no match (the empty sequence)
BraceSpan(text) ==
    LET opens == {k \in 1..Len(text) : text[k] = "{"}
    IN  IF opens = {} THEN << >>
        ELSE LET lo == CHOOSE k \in opens : \A m \in opens : k <= m
                 closes == {k \in lo..Len(text) : text[k] = "}"}
             IN  IF closes = {} THEN << >>
                 ELSE SubSeq(text, lo, CHOOSE k \in closes : \A m \in closes : k >= m)

\* the span without its blanks
Squeeze(span) == SelectSeq(span, LAMBDA c : c # " ")

\* json.loads(span) succeeds: an object with no member or with the one member
JsonLoads(span) == Squeeze(span) \in { << "{", "}" >>, << "{", "s", "}" >> }

\* the dict json.loads returns
JsonValue(span) ==
    IF Squeeze(span) = << "{", "s", "}" >> THEN [summary |-> << "o", "k" >>]
    ELSE << >>

Fallback(text) == [summary |-> Strip(text), meal_plan |-> << >>, advice |-> << >>]

\* _extract_json_from_text (and _parse_json_like, the same code): the parsed
\* object, the fallback, or an exception.  With text None re.search raises
\* inside the try, and text.strip() raises after it.
extract_json_from_text(text) ==
    IF text = None THEN [raised |-> TRUE]
    ELSE IF BraceSpan(text) # << >> /\ JsonLoads(BraceSpan(text))
         THEN [raised |-> FALSE, value |-> JsonValue(BraceSpan(text))]
         ELSE [raised |-> FALSE, value |-> Fallback(text)]

parse_json_like(text) == extract_json_from_text(text)

\* parsed.get(key, default)
DictGet(d, key, default) == IF key \in DOMAIN d THEN d[key] ELSE default

\* what client.models.generate_content does: it raises, or returns a response
\* whose .text is a string or None, or a response without a usable .text
GenRaise == [kind |-> "raise"]
GenText(t) == [kind |-> "text", text |-> t]
GenRepr == [kind |-> "repr"]
GeminiOutcomes == { GenRaise, GenRepr, GenText(None) } \cup { GenText(t) : t \in ReplyTexts }

\* `resp.text if hasattr(resp, "text") else str(resp)`, str(resp) on an exception
RawText(outcome) == IF outcome.kind = "text" THEN outcome.text ELSE << "x" >>

\* consult_with_gemini from the call on: the result dict or an exception
consult_with_gemini(outcome) ==
    IF outcome.kind = "raise" THEN [raised |-> TRUE]
    ELSE LET parsed == extract_json_from_text(RawText(outcome))
         IN  IF parsed.raised THEN [raised |-> TRUE]
             ELSE [raised |-> FALSE,
                   value |-> [summary   |-> DictGet(parsed.value, "summary", << >>),
                              meal_plan |-> DictGet(parsed.value, "meal_plan", << >>),
                              advice    |-> DictGet(parsed.value, "advice", << >>),
                              raw       |-> RawText(outcome)]]

\* call_gemini_chat from the call on: the reply or an exception
call_gemini_chat(outcome) ==
    IF outcome.kind = "raise" THEN [raised |-> TRUE]
    ELSE [raised |-> FALSE, value |-> RawText(outcome)]

\* the try/except of consult around consult_with_gemini
ConsultResponseMut(r) ==
    IF r.raised THEN [status |-> 500]
    ELSE [status |-> 200, ok |-> TRUE, consult |-> r.value]
ConsultResponse(r) ==
    IF r.raised THEN [status |-> 500, ok |-> FALSE, error |-> "str(e)"]
    ELSE [status |-> 200, ok |-> TRUE, consult |-> r.value]

\* the try/except of chat around call_gemini_chat
ChatResponse(r) ==
    IF r.raised THEN [status |-> 500, ok |-> FALSE, error |-> "str(e)"]
    ELSE [status |-> 200, ok |-> TRUE, reply |-> r.value]

\* the two configuration tests of consult and chat, the SDK first
ConfigError ==
    IF ~genai THEN "Gemini SDK (google-genai) not installed on server"
    ELSE IF ~GEMINI_API_KEY THEN "GEMINI_API_KEY not set in environment"
    ELSE ""

\* the bodies drawn: total_nutrients a dict, or a list on which .items() raises
ConsultBodies == { [total_nutrients |-> "dict"], [total_nutrients |-> "list"] }

\* the bodies drawn: message missing, empty or given; analysis_data a dict, or
\* a list on which .get() raises
ChatBodies ==
    { [message |-> m, analysis_data |-> a] :
        m \in { None, << >>, << "h", "i" >> }, a \in { "dict", "list" } }

\* consult, lines 299-321: without the SDK or the key the request ends with
\* ok:false
ConsultBegin ==
    /\ pc = "idle"
    /\ \E body \in ConsultBodies : data' = body
    /\ route' = "consult"
    /\ IF ConfigError # ""
       THEN /\ response' = [status |-> 500, ok |-> FALSE, error |-> ConfigError]
            /\ pc' = "done"
       ELSE /\ response' = response
            /\ pc' = "call"
    /\ UNCHANGED << GEMINI_API_KEY, genai, city, gender, height, weight, weather, i,
                    nut, totals_mg, baseline, defic, rec, calls, raw_text >>

\* consult, lines 323-327: the prompt is built (an exception when
\* total_nutrients has no .items()), the collaborator is called once, its
\* reply parsed, and the one response sent
ConsultCall ==
    /\ route = "consult" /\ pc = "call"
    /\ IF data.total_nutrients # "dict"
       THEN /\ response' = ConsultResponse([raised |-> TRUE])
            /\ UNCHANGED << calls, raw_text >>
       ELSE \E outcome \in GeminiOutcomes :
              /\ calls' = Append(calls, [api |-> "gemini", item |-> 0, got |-> outcome])
              /\ raw_text' = IF outcome.kind = "raise" THEN raw_text ELSE RawText(outcome)
              /\ response' = ConsultResponse(consult_with_gemini(outcome))
    /\ pc' = "done"
    /\ UNCHANGED << GEMINI_API_KEY, genai, route, data, city, gender, height, weight,
                    weather, i, nut, totals_mg, baseline, defic, rec >>

\* chat, lines 376-388: without a message the request ends with 400, without
\* the SDK or the key with ok:false
ChatBegin ==
    /\ pc = "idle"
    /\ \E body \in ChatBodies : data' = body
    /\ route' = "chat"
    /\ IF data'.message = None \/ data'.message = << >>
       THEN /\ response' = [status |-> 400, ok |-> FALSE, error |-> "No message provided"]
            /\ pc' = "done"
       ELSE IF ConfigError # ""
       THEN /\ response' = [status |-> 500, ok |-> FALSE, error |-> ConfigError]
            /\ pc' = "done"
       ELSE /\ response' = response
            /\ pc' = "call"
    /\ UNCHANGED << GEMINI_API_KEY, genai, city, gender, height, weight, weather, i,
                    nut, totals_mg, baseline, defic, rec, calls, raw_text >>

\* chat, lines 390-394: the prompt is built (an exception when analysis_data
\* has no .get()), the collaborator is called once, and the one response sent
ChatCall ==
    /\ route = "chat" /\ pc = "call"
    /\ IF data.analysis_data # "dict"
       THEN /\ response' = ChatResponse([raised |-> TRUE])
            /\ UNCHANGED << calls, raw_text >>
       ELSE \E outcome \in GeminiOutcomes :
              /\ calls' = Append(calls, [api |-> "gemini", item |-> 0, got |-> outcome])
              /\ raw_text' = IF outcome.kind = "raise" THEN raw_text ELSE RawText(outcome)
              /\ response' = ChatResponse(call_gemini_chat(outcome))
    /\ pc' = "done"
    /\ UNCHANGED << GEMINI_API_KEY, genai, route, data, city, gender, height, weight,
                    weather, i, nut, totals_mg, baseline, defic, rec >>

\* the process after start-up, with the Gemini key and SDK present or not:
\* no request yet
Start(key, sdk) ==
    /\ GEMINI_API_KEY = key /\ genai = sdk
    /\ route = "none" /\ pc = "idle"
    /\ data = NoData /\ city = << >> /\ gender = Male /\ height = 0 /\ weight = 0
    /\ weather = NoWeather /\ i = 0 /\ nut = << >> /\ totals_mg = << >>
    /\ baseline = NoBaseline /\ defic = << >> /\ rec = << >> /\ calls = << >>
    /\ raw_text = None /\ response = NoResponse

\* an /analyze request (the route reads neither the Gemini key nor the SDK)
Init == Start(TRUE, TRUE)

Next ==
    \/ AnalyzeBegin \/ AnalyzeWeather \/ AnalyzeSkipItem \/ AnalyzeLookup
    \/ AnalyzeFold \/ AnalyzeFinish

Spec == Init /\ [][Next]_vars

\* a /consult or /chat request, under every Gemini configuration
InitGemini == \E key \in BOOLEAN, sdk \in BOOLEAN : Start(key, sdk)

NextGemini == ConsultBegin \/ ConsultCall \/ ChatBegin \/ ChatCall

SpecGemini == InitGemini /\ [][NextGemini]_vars

\* one request of any of the three routes, with the Gemini key set or not
InitServer == \E key \in BOOLEAN : Start(key, TRUE)

NextServer == Next \/ NextGemini

SpecServer == InitServer /\ [][NextServer]_vars

\* the scorer and the recommender on drawn arguments, or one /analyze request
\* (which calls both at lines 276-277)
InitRecommend == InitScorer \/ Init

NextRecommend == NextScorer \/ Next

SpecRecommend == InitRecommend /\ [][NextRecommend]_vars

\* ---------------------------------------------------------------------------
\* Python floats: IEEE 754 binary64, round to nearest, ties to even
\* ---------------------------------------------------------------------------
\* A natural number of any size is the sequence of its digits in base 2^15,
\* least significant first, without leading zeros (zero is the empty
\* sequence).
LimbBits == 15
LimbBase == 32768

RECURSIVE BigNorm(_)
BigNorm(a) ==
    IF a = << >> THEN a
    ELSE IF a[Len(a)] = 0 THEN BigNorm(SubSeq(a, 1, Len(a) - 1))
    ELSE a

RECURSIVE BigFromInt(_)
BigFromInt(n) == IF n = 0 THEN << >> ELSE << n % LimbBase >> \o BigFromInt(n \div LimbBase)

\* the value of a number below 2^30
BigToInt(a) ==
    IF a = << >> THEN 0
    ELSE IF Len(a) = 1 THEN a[1]
    ELSE a[1] + LimbBase * a[2]

Limb(a, k) == IF k <= Len(a) THEN a[k] ELSE 0

BigAdd(a, b) ==
    LET n == IF Len(a) > Len(b) THEN Len(a) ELSE Len(b)
        C[k \in 0..n] ==
            IF k = 0 THEN 0 ELSE (Limb(a, k) + Limb(b, k) + C[k - 1]) \div LimbBase
    IN  BigNorm([k \in 1..(n + 1) |->
                    IF k <= n THEN (Limb(a, k) + Limb(b, k) + C[k - 1]) % LimbBase
                    ELSE C[n]])

\* a - b for a >= b
BigSub(a, b) ==
    LET n == Len(a)
        C[k \in 0..n] ==
            IF k = 0 THEN 0
            ELSE IF Limb(a, k) - Limb(b, k) - C[k - 1] < 0 THEN 1 ELSE 0
    IN  BigNorm([k \in 1..n |-> (Limb(a, k) - Limb(b, k) - C[k - 1]) % LimbBase])

\* a * d for 0 <= d < 2^15
BigMulSmall(a, d) ==
    LET n == Len(a)
        C[k \in 0..n] ==
            IF k = 0 THEN 0 ELSE (a[k] * d + C[k - 1]) \div LimbBase
    IN  BigNorm([k \in 1..(n + 1) |->
                    IF k <= n THEN (a[k] * d + C[k - 1]) % LimbBase ELSE C[n]])

\* a * 2^(15 j)
BigShlLimbs(a, j) == IF a = << >> THEN a ELSE [k \in 1..j |-> 0] \o a

BigMul(a, b) ==
    LET P[k \in 0..Len(b)] ==
            IF k = 0 THEN << >>
            ELSE BigAdd(P[k - 1], BigShlLimbs(BigMulSmall(a, b[k]), k - 1))
    IN  P[Len(b)]

\* quotient and remainder of a by d, 0 < d < 2^15
BigDivSmall(a, d) ==
    LET n == Len(a)
        \* R[j]: the remainder after the j most significant digits
        R[j \in 0..n] ==
            IF j = 0 THEN 0 ELSE (R[j - 1] * LimbBase + a[n - j + 1]) % d
    IN  [q |-> BigNorm([k \in 1..n |-> (R[n - k] * LimbBase + a[k]) \div d]),
         r |-> R[n]]

\* a * 2^k and floor(a / 2^k)
BigShl(a, k) == BigShlLimbs(BigMulSmall(a, 2 ^ (k % LimbBits)), k \div LimbBits)
BigShr(a, k) ==
    LET j == k \div LimbBits
    IN  IF j >= Len(a) THEN << >>
        ELSE BigDivSmall(SubSeq(a, j + 1, Len(a)), 2 ^ (k % LimbBits)).q

\* the number of binary digits of a
BigBits(a) ==
    IF a = << >> THEN 0
    ELSE LimbBits * (Len(a) - 1)
         + CHOOSE b \in 1..LimbBits : 2 ^ (b - 1) <= a[Len(a)] /\ a[Len(a)] < 2 ^ b

\* -1, 0 or 1 as a < b, a = b or a > b
BigCmp(a, b) ==
    IF Len(a) # Len(b) THEN (IF Len(a) < Len(b) THEN 0 - 1 ELSE 1)
    ELSE LET D == { k \in 1..Len(a) : a[k] # b[k] }
         IN  IF D = {} THEN 0
             ELSE LET k == CHOOSE x \in D : \A y \in D : y <= x
                  IN  IF a[k] < b[k] THEN 0 - 1 ELSE 1

\* A float that is not negative: the record [m, e] of value m * 2^e, with m
\* of exactly 53 binary digits, or m = 0.  (Infinities, NaN and subnormal
\* numbers are out of the range of the amounts computed here.)
MantBits == 53
FZero == [m |-> << >>, e |-> 0]

\* the float nearest to n * 2^e, or to a value strictly between n * 2^e and
\* (n + 1) * 2^e when `sticky`; ties go to the even mantissa
FRound(n, e, sticky) ==
    LET bits == BigBits(n)
        s == bits - MantBits
        q == BigShr(n, s)
        rem == BigSub(n, BigShl(q, s))
        c == BigCmp(rem, BigShl(<< 1 >>, s - 1))
        up == c > 0 \/ (c = 0 /\ (sticky \/ q[1] % 2 = 1))
        q2 == IF up THEN BigAdd(q, << 1 >>) ELSE q
    IN  IF n = << >> THEN FZero
        ELSE IF s <= 0 THEN [m |-> BigShl(n, 0 - s), e |-> e + s]
        ELSE IF BigBits(q2) > MantBits THEN [m |-> BigShr(q2, 1), e |-> e + s + 1]
        ELSE [m |-> q2, e |-> e + s]

\* float(n) for an integer 0 <= n < 2^31
FFromInt(n) == FRound(BigFromInt(n), 0, FALSE)

\* x * y
FMul(x, y) == FRound(BigMul(x.m, y.m), x.e + y.e, FALSE)

\* x + y
FAdd(x, y) ==
    IF x.m = << >> THEN y
    ELSE IF y.m = << >> THEN x
    ELSE LET e == IF x.e < y.e THEN x.e ELSE y.e
         IN  FRound(BigAdd(BigShl(x.m, x.e - e), BigShl(y.m, y.e - e)), e, FALSE)

\* x / d for the float d of an integer 0 < d < 2^15
FDivInt(x, d) ==
    LET qr == BigDivSmall(BigShl(x.m, 2 * LimbBits), d)
    IN  FRound(qr.q, x.e - 2 * LimbBits, qr.r # 0)

\* round(x * 100) to the nearest integer, ties to even, of the exact value of
\* x: the hundredths that round(x, 2) and its repr display (below 2^30)
FRound2(x) ==
    LET n == BigMulSmall(x.m, 100)
        s == 0 - x.e
        q == BigShr(n, s)
        rem == BigSub(n, BigShl(q, s))
        c == BigCmp(rem, BigShl(<< 1 >>, s - 1))
        up == c > 0 \/ (c = 0 /\ BigToInt(q) % 2 = 1)
    IN  IF x.m = << >> THEN 0
        ELSE IF s <= 0 THEN BigToInt(BigShl(n, x.e))
        ELSE BigToInt(q) + IF up THEN 1 ELSE 0

\* x < y
FLess(x, y) ==
    IF y.m = << >> THEN FALSE
    ELSE IF x.m = << >> THEN TRUE
    ELSE IF x.e # y.e THEN x.e < y.e
    ELSE BigCmp(x.m, y.m) < 0

\* x - y for x >= y
FSub(x, y) ==
    IF y.m = << >> THEN x
    ELSE LET e == IF x.e < y.e THEN x.e ELSE y.e
         IN  FRound(BigSub(BigShl(x.m, x.e - e), BigShl(y.m, y.e - e)), e, FALSE)

\* the float of a decimal literal n/1000 (0.6, or a JSON number of the food
\* database): the float nearest to it
FFromMilli(n) == FDivInt(FFromInt(n), 1000)

\* ---------------------------------------------------------------------------
\* The aggregation loop and the scorer on floats
\* ---------------------------------------------------------------------------
\* actual = float(val) * (qty_g / 100.0)
actual(val, qty_g) == FMul(val, FDivInt(qty_g, 100))

\* convert_to_mg on a float amount
convert_to_mgF(amount, unit) ==
    LET u == Lower(IF unit = None THEN << >> ELSE unit)
    IN  IF u \in { <<"g">>, <<"g","r","a","m">>, <<"g","r","a","m","s">> }
        THEN FMul(amount, FFromInt(1000))
        ELSE amount

\* totals_mg.get(key, 0.0)
FGetTotal(totals, k) == IF k \in DOMAIN totals THEN totals[k] ELSE FZero

\* the body of the inner loop of analyze for one nutrient entry, on floats:
\* e.val is the JSON number in thousandths, qty the quantity in grams
FoldEntryIntoFMut(totals, e, qty) ==
    LET key == MatchedKey(e.name)
    IN  IF key = NoKey THEN totals
        ELSE [k \in DOMAIN totals \cup {key} |->
                IF k = key
                THEN convert_to_mgF(actual(FFromMilli(e.val), FFromInt(qty)), e.unit)
                ELSE totals[k]]
FoldEntryIntoF(totals, e, qty) ==
    LET key == MatchedKey(e.name)
    IN  IF key = NoKey THEN totals
        ELSE [k \in DOMAIN totals \cup {key} |->
                IF k = key
                THEN FAdd(FGetTotal(totals, k),
                          convert_to_mgF(actual(FFromMilli(e.val), FFromInt(qty)), e.unit))
                ELSE totals[k]]

\* the inner loop of analyze over the entries of one lookup
FoldItemF(totals, entries, qty) ==
    LET T[n \in 0..Len(entries)] ==
            IF n = 0 THEN totals ELSE FoldEntryIntoF(T[n - 1], entries[n], qty)
    IN  T[Len(entries)]

\* human_totals on floats: the hundredths displayed and the suffix
human_totalsF(totals) ==
    [k \in DOMAIN totals |->
        IF k \in {"Protein", "Fiber"}
        THEN [amount |-> FRound2(FDivInt(totals[k], 1000)), unit |-> "g"]
        ELSE [amount |-> FRound2(totals[k]), unit |-> "mg"]]

\* the baseline of key k in milligrams, as calculate_deficiency holds it when
\* the profile gives no height (bmi = 0, no adjustment)
BaselineF(g, k) == FFromInt(Baseline(g)[k] \div 1000)

\* `have < need * 0.6`
Below60F(have, need) == FLess(have, FMul(need, FFromMilli(600)))

\* calculate_deficiency on float totals, for a profile without a height
calculate_deficiencyF(totals, g) ==
    LET flagged(k) == Below60F(FGetTotal(totals, k), BaselineF(g, k))
        more(k) == FSub(BaselineF(g, k), FGetTotal(totals, k))
        entry(k) ==
            IF k \in {"Protein", "Fiber"}
            THEN [key |-> k, amount |-> FRound2(FDivInt(more(k), 1000)), unit |-> "g"]
            ELSE [key |-> k, amount |-> FRound2(more(k)), unit |-> "mg"]
        F[n \in 0..Len(ScoringOrder)] ==
            IF n = 0 THEN << >>
            ELSE IF flagged(ScoringOrder[n])
                 THEN Append(F[n - 1], entry(ScoringOrder[n]))
                 ELSE F[n - 1]
    IN  F[Len(ScoringOrder)]

\* a food database that returns the same record for a name each time: per
\* 100 g, Protein 0.1 g; Protein 1.5 g; Iron 0.3 mg; Protein 2 g and
\* Vitamin C 8.7 mg; and a name it does not know
FoodDatabase ==
    (<< "a" >> :> FoodOk(<< Entry(<< "P","r","o","t","e","i","n" >>, Num(100),
                                  << "G" >>) >>)) @@
    (<< "b" >> :> FoodOk(<< Entry(<< "P","r","o","t","e","i","n" >>, Num(1500),
                                  << "G" >>) >>)) @@
    (<< "c" >> :> FoodOk(<< Entry(<< "I","r","o","n",","," ","F","e" >>, Num(300),
                                  << "M","G" >>) >>)) @@
    (<< "d" >> :> FoodOk(<< Entry(<< "P","r","o","t","e","i","n" >>, Num(2000),
                                  << "G" >>),
                            Entry(<< "V","i","t","a","m","i","n"," ","C" >>, Num(8700),
                                  << "M","G" >>) >>)) @@
    (<< "e" >> :> FoodEmpty)

\* the quantities drawn, in grams
Quantities == { 5, 10, 25, 1595, 1990 }

\* the bodies drawn: up to MaxItems items of one food, a profile without height
SameFoodBodies ==
    { [city |-> << "P","u","n","e" >>,
       items |-> [n \in DOMAIN qs |-> [name |-> f, qty |-> Num(qs[n])]],
       gender |-> Male, height |-> JsonNull, weight |-> JsonNull] :
        f \in DOMAIN FoodDatabase,
        qs \in UNION { [1..n -> Quantities] : n \in 1..MaxItems } }

\* analyze after its weather lookup, about to enter the loop over the items
InitFloat ==
    /\ GEMINI_API_KEY = TRUE /\ genai = TRUE
    /\ route = "analyze" /\ pc = "loop"
    /\ data \in SameFoodBodies
    /\ city = data.city /\ gender = data.gender
    /\ height = ParseFloat(data.height) /\ weight = ParseFloat(data.weight)
    /\ weather = Snapshot(250)
    /\ calls = << [api |-> "weather", item |-> 0, got |-> WeatherOk(250)] >>
    /\ i = 1 /\ nut = << >> /\ totals_mg = << >>
    /\ baseline = NoBaseline /\ defic = << >> /\ rec = << >>
    /\ raw_text = None /\ response = NoResponse

\* analyze, lines 251-274 on floats: the lookup of one item and the fold of
\* its entries
FloatItem ==
    /\ route = "analyze" /\ pc = "loop"
    /\ i <= Len(data.items)
    /\ LET resp == FoodDatabase[ParseName(data.items[i].name)]
       IN  /\ calls' = Append(calls, [api |-> "food", item |-> i, got |-> resp])
           /\ totals_mg' = FoldItemF(totals_mg, get_food_nutrients(resp),
                                     ParseFloat(data.items[i].qty))
    /\ i' = i + 1
    /\ UNCHANGED << GEMINI_API_KEY, genai, route, pc, data, city, gender, height,
                    weight, weather, nut, baseline, defic, rec, raw_text, response >>

\* analyze, lines 276-291 on floats
FloatFinish ==
    /\ route = "analyze" /\ pc = "loop"
    /\ i > Len(data.items)
    /\ defic' = calculate_deficiencyF(totals_mg, gender)
    /\ rec' = recommend_foods(defic', weather)
    /\ response' = [status |-> 200, weather |-> weather,
                    total_nutrients |-> human_totalsF(totals_mg),
                    deficient |-> defic', recommendations |-> rec']
    /\ pc' = "done"
    /\ UNCHANGED << GEMINI_API_KEY, genai, route, data, city, gender, height, weight,
                    weather, i, nut, totals_mg, baseline, calls, raw_text >>

NextFloat == FloatItem \/ FloatFinish

SpecFloat == InitFloat /\ [][NextFloat]_vars

\* ---------------------------------------------------------------------------
\* Claims about the scorer and the recommender (checked under SpecScorer)
\* ---------------------------------------------------------------------------
Scored == route = "scorer" /\ pc = "scored"
Recommended == route = "scorer" /\ pc = "recommended"

DeficKeysOf(d) == { d[n].key : n \in DOMAIN d }

ClaimedFactor ==
    IF height > 0 /\ weight > 0 /\ 2 * weight * 10000 < 37 * height * height THEN 11
    ELSE IF height > 0 /\ weight * 10000 > 25 * height * height THEN 9
    ELSE 10
ClaimedBaseline ==
    [ Protein |-> 5000000 * ClaimedFactor,
      Fiber   |-> 3000000 * ClaimedFactor,
      Iron    |-> (IF Lower(gender) = Female THEN 1800 ELSE 800) * ClaimedFactor,
      Calcium |-> 100000 * ClaimedFactor ] @@
    ( "Vitamin C" :> 9000 * ClaimedFactor )

\* C2: every baseline is multiplied by 1.10 exactly when BMI > 0 and
\* BMI < 18.5, by 0.90 exactly when BMI > 25, and is otherwise (heightCm <= 0
\* and any BMI not greater than 0 included) left at Protein 50 g, Vitamin C
\* 90 mg, Iron 18 mg (female) or 8 mg, Calcium 1000 mg, Fiber 30 g.
C2_BmiAdjustmentAsClaimed == Scored => baseline = ClaimedBaseline

\* C3: every entry of the result reports the full adjusted baseline minus the
\* total (rounded to 2 decimals), in grams with suffix "g" for Protein and
\* Fiber and in milligrams with suffix "mg" for the others; a nutrient that is
\* not flagged has no entry, and no nutrient has two.
C3_ShortfallIsBaselineMinusTotal ==
    Scored =>
        /\ \A n \in DOMAIN defic :
              LET k == defic[n].key
                  have == IF k \in DOMAIN totals_mg THEN totals_mg[k] ELSE 0
                  inGrams == k \in {"Protein", "Fiber"}
              IN  /\ k \in Canonical
                  /\ 10 * have < 6 * baseline[k]
                  /\ defic[n].unit = IF inGrams THEN "g" ELSE "mg"
                  /\ defic[n].amount =
                        Round2(baseline[k] - have, IF inGrams THEN 10000 ELSE 10)
        /\ \A n, m \in DOMAIN defic : defic[n].key = defic[m].key => n = m

\* C3 witness: a gram entry and a milligram entry whose amounts differ from
\* what 60% of the baseline minus the total would give, one of them rounded,
\* beside a nutrient that has no entry.
C3_Witness ==
    /\ Scored
    /\ \E n, m \in DOMAIN defic :
          /\ defic[n].unit = "g" /\ defic[m].unit = "mg"
          /\ defic[n].amount * 10000 # baseline[defic[n].key] - GetTotal(totals_mg, defic[n].key)
          /\ defic[m].amount # Round2((6 * baseline[defic[m].key]) \div 10
                                        - GetTotal(totals_mg, defic[m].key), 10)
    /\ Canonical \ DeficKeysOf(defic) # {}

\* the number of candidates: three table foods per canonical key of the
\* deficiency map, and two weather foods
CandidateCount == 3 * Cardinality(DeficKeysOf(defic) \cap Canonical) + 2

\* C4: recommend_foods returns at most 10 entries, exactly 10 when all five
\* canonical nutrients are deficient (17 candidates), and what it returns is
\* the first 10 candidates in insertion order, none reordered or removed.
C4_AtMostTenInOrder ==
    Recommended =>
        /\ Len(rec) <= 10
        /\ Len(rec) = IF CandidateCount < 10 THEN CandidateCount ELSE 10
        /\ (Canonical \subseteq DeficKeysOf(defic) => CandidateCount = 17 /\ Len(rec) = 10)
        /\ \A p \in 1..Len(rec) : rec[p] = Candidates(defic, weather)[p]

\* C4 witness: all five nutrients deficient, 17 candidates cut to 10.
C4_Witness ==
    /\ Recommended
    /\ Canonical \subseteq DeficKeysOf(defic)
    /\ Len(Candidates(defic, weather)) = 17
    /\ Len(rec) = 10

\* ---------------------------------------------------------------------------
\* Claims about the /analyze route (checked under Spec)
\* ---------------------------------------------------------------------------
AnalyzeDone == route = "analyze" /\ pc = "done"
AnalyzeOk == AnalyzeDone /\ response.status = 200

InRec(r, food) == \E p \in DOMAIN r : r[p][1] = food

\* the scenario of C5: a hot day, and totals for Protein and Fiber only, each
\* below 60% of its baseline
C5_Scenario ==
    /\ AnalyzeOk
    /\ weather.temp > 300
    /\ DOMAIN totals_mg = {"Protein", "Fiber"}
    /\ \A k \in DOMAIN totals_mg : 10 * totals_mg[k] < 6 * baseline[k]

\* C5 as stated: in the scenario Protein and Fiber are flagged and the
\* recommendations hold Cucumber and Yogurt together with the Protein and
\* Fiber table foods, at most 10 entries in all.
C5_BananaAsClaimed ==
    C5_Scenario =>
        /\ {"Protein", "Fiber"} \subseteq DeficKeysOf(response.deficient)
        /\ InRec(response.recommendations, "Cucumber")
        /\ InRec(response.recommendations, "Yogurt")
        /\ \A f \in {"Chicken", "Eggs", "Paneer", "Oats", "Apple", "Carrots"} :
              InRec(response.recommendations, f)
        /\ Len(response.recommendations) <= 10

\* C5 amended: in the scenario all five nutrients are flagged (the three
\* without a total count as 0), so the 17 candidates are cut to exactly 10:
\* the Protein and Fiber table foods are listed, Cucumber and Yogurt are not.
C5_BananaWeatherFoodsCutOff ==
    C5_Scenario =>
        /\ {"Protein", "Fiber"} \subseteq DeficKeysOf(response.deficient)
        /\ DeficKeysOf(response.deficient) = Canonical
        /\ \A f \in {"Chicken", "Eggs", "Paneer", "Oats", "Apple", "Carrots"} :
              InRec(response.recommendations, f)
        /\ Len(response.recommendations) = 10
        /\ ~InRec(response.recommendations, "Cucumber")
        /\ ~InRec(response.recommendations, "Yogurt")

\* C5 witness: one item, 150 g of banana, Protein 1.1 g and Fiber 2.6 g per
\* 100 g, at 35 degrees: totals 1650 mg and 3900 mg.
C5_Witness ==
    /\ C5_Scenario
    /\ Len(data.items) = 1
    /\ ParseName(data.items[1].name) = Banana
    /\ data.items[1].qty = Num(150)
    /\ weather.temp = 350
    /\ totals_mg = [Protein |-> 1650000, Fiber |-> 3900000]

\* the weather lookup of the request raised or its body was unusable
WeatherLookupFailed ==
    /\ calls # << >>
    /\ calls[1].api = "weather"
    /\ (~calls[1].got.ok \/ "current" \notin DOMAIN calls[1].got)

\* C6: a request without a city (missing or blank) ends with 400 and no
\* lookup at all; one whose weather lookup fails ends with 404 and no food
\* lookup; the success payload is sent only after a weather lookup that
\* succeeded, and no food lookup is issued before one.
C6_ErrorsBeforeLookups ==
    route = "analyze" =>
        /\ (pc # "done" => response = NoResponse)
        /\ (pc = "done" /\ (data.city = None \/ Strip(data.city) = << >>) =>
                response.status = 400 /\ "error" \in DOMAIN response /\ calls = << >>)
        /\ (pc = "done" /\ WeatherLookupFailed =>
                response.status = 404 /\ "error" \in DOMAIN response /\ Len(calls) = 1)
        /\ (pc = "done" /\ response.status = 200 =>
                /\ DOMAIN response = {"status", "weather", "total_nutrients",
                                       "deficient", "recommendations"}
                /\ calls # << >> /\ calls[1].api = "weather" /\ ~WeatherLookupFailed
                /\ response.weather.temp = calls[1].got.current.temp_c)
        /\ \A n \in DOMAIN calls :
              calls[n].api = "food" => n > 1 /\ ~WeatherLookupFailed

\* C6 witness: the weather lookup failed for a request that names a city and
\* holds an item that would have been looked up; it ended with 404.
C6_Witness ==
    /\ AnalyzeDone
    /\ WeatherLookupFailed
    /\ \E n \in DOMAIN data.items : ~ItemSkipped(data.items[n])
    /\ response.status = 404

\* the amount the entries of one lookup add to key k for a quantity qty
Contribution(entries, qty, k) ==
    LET S[n \in 0..Len(entries)] ==
            IF n = 0 THEN 0
            ELSE S[n - 1]
                 + IF MatchedKey(entries[n].name) = k
                   THEN convert_to_mg((entries[n].val * qty) \div 100, entries[n].unit)
                   ELSE 0
    IN  S[Len(entries)]

\* an item that cannot contribute: no name, or a quantity that is not a
\* positive number
BadItem(it) ==
    \/ it.name = None
    \/ Strip(it.name) = << >>
    \/ "num" \notin DOMAIN it.qty
    \/ it.qty.num <= 0

\* the sum, over the lookups made so far that found a food, of what each adds
\* to key k; a lookup that raised or found nothing adds 0
ExpectedTotal(k) ==
    LET S[n \in 0..Len(calls)] ==
            IF n = 0 THEN 0
            ELSE S[n - 1]
                 + IF calls[n].api # "food" THEN 0
                   ELSE IF ~calls[n].got.ok THEN 0
                   ELSE IF calls[n].got.foods = << >> THEN 0
                   ELSE Contribution(get_food_nutrients(calls[n].got),
                                     data.items[calls[n].item].qty.num, k)
    IN  S[Len(calls)]

\* C7: an item with an empty name or a non-positive or unparseable quantity
\* is never looked up, a lookup that fails or finds nothing adds nothing, so
\* between items and at the end the totals are the sum of what the other
\* items contributed; and once the weather is known the request ends with the
\* success payload.
C7_BadItemsContributeNothing ==
    (route = "analyze" /\ weather # NoWeather) =>
        /\ \A n \in DOMAIN calls :
              calls[n].api = "food" => ~BadItem(data.items[calls[n].item])
        /\ (pc \in {"loop", "done"} =>
                \A k \in Canonical : GetTotal(totals_mg, k) = ExpectedTotal(k))
        /\ (pc = "done" =>
                /\ response.status = 200
                /\ Cardinality({n \in DOMAIN calls : calls[n].api = "food"})
                     = Cardinality({n \in DOMAIN data.items : ~BadItem(data.items[n])}))

\* C7 witness: a request with an item that is passed over and an item whose
\* lookup found a food ended with the success payload and non-empty totals.
C7_Witness ==
    /\ AnalyzeOk
    /\ \E n \in DOMAIN data.items : BadItem(data.items[n])
    /\ \E n \in DOMAIN calls : calls[n].api = "food" /\ calls[n].got.ok
    /\ DOMAIN totals_mg # {}

\* C8: the keys of the running totals are among the five canonical names
\* and no value decreases from one step of the loop to the next.
C8_TotalsKeysAndMonotone ==
    [][ /\ DOMAIN totals_mg' \subseteq Canonical
        /\ \A k \in Canonical : GetTotal(totals_mg', k) >= GetTotal(totals_mg, k) ]_vars

\* ---------------------------------------------------------------------------
\* Claims about the /consult and /chat routes (checked under SpecGemini)
\* ---------------------------------------------------------------------------
\* the collaborator was called and the call returned
CallReturned == calls # << >> /\ calls[1].api = "gemini" /\ calls[1].got.kind # "raise"

\* C9: whenever the collaborator's call returns, whatever its reply text, the
\* parser returns without raising (the fallback {summary: trimmed text,
\* meal_plan: [], advice: ""} when no JSON object parses) and the consult
\* request answers ok:true.
C9_ParserNeverRaises ==
    (route = "consult" /\ pc = "done" /\ CallReturned) =>
        /\ response.ok
        /\ (~(BraceSpan(raw_text) # << >> /\ JsonLoads(BraceSpan(raw_text))) =>
                /\ response.consult.summary = Strip(raw_text)
                /\ response.consult.meal_plan = << >>
                /\ response.consult.advice = << >>)

\* C10: a consult or chat request ends in exactly one response, which carries
\* ok: ok:false with an error when the SDK or the key is absent or the call
\* fails, and for chat when the message is missing (400, before any
\* configuration test and with no call); ok:true only after the one call that
\* returned.
C10_OneResponse ==
    route \in {"consult", "chat"} =>
        /\ (pc # "done" => response = NoResponse)
        /\ Len(calls) <= 1
        /\ (pc = "done" =>
              /\ "ok" \in DOMAIN response
              /\ (response.ok => response.status = 200)
              /\ (~response.ok => "error" \in DOMAIN response /\ response.status \in {400, 500})
              /\ (route = "chat" /\ (data.message = None \/ data.message = << >>) =>
                    ~response.ok /\ response.status = 400 /\ calls = << >>)
              /\ (~genai \/ ~GEMINI_API_KEY => ~response.ok /\ calls = << >>)
              /\ (calls # << >> /\ calls[1].got.kind = "raise" => ~response.ok)
              /\ (response.ok => CallReturned))

\* C10 witness: the collaborator's call raised and the consult request
\* answered ok:false.
C10_Witness ==
    /\ route = "consult" /\ pc = "done"
    /\ calls # << >> /\ calls[1].got.kind = "raise"
    /\ ~response.ok /\ response.status = 500

\* ---------------------------------------------------------------------------
\* Claims about the outbound calls of a request (checked under SpecServer)
\* ---------------------------------------------------------------------------
\* the positions in the item list of the items with a name and a positive
\* quantity, in list order
GoodItems(items) ==
    LET G[n \in 0..Len(items)] ==
            IF n = 0 THEN << >>
            ELSE IF BadItem(items[n]) THEN G[n - 1] ELSE Append(G[n - 1], n)
    IN  G[Len(items)]

\* the items of the food lookups issued so far, in the order of the calls
FoodCallItems ==
    LET F[n \in 0..Len(calls)] ==
            IF n = 0 THEN << >>
            ELSE IF calls[n].api = "food" THEN Append(F[n - 1], calls[n].item)
                 ELSE F[n - 1]
    IN  F[Len(calls)]

\* s is the beginning of t
IsPrefix(s, t) == Len(s) <= Len(t) /\ SubSeq(t, 1, Len(s)) = s

\* C12: in an analyze request the first outbound call is the one weather
\* lookup and every later call is a food lookup; the food lookups are, in
\* item-list order, the items with a non-empty name and a positive quantity,
\* one lookup each whatever the lookup returned (never a second one after a
\* failure, never one for a skipped item), the next issued only once the
\* entries of the previous one are folded in, and all of them by the time the
\* success payload is sent; a consult or chat request issues at most one
\* generative-AI call and no other call.
C12_CallsSequentialNoRetry ==
    /\ (route = "analyze" =>
          /\ \A n \in DOMAIN calls : (calls[n].api = "weather") <=> (n = 1)
          /\ \A n \in DOMAIN calls : calls[n].api \in {"weather", "food"}
          /\ IsPrefix(FoodCallItems, GoodItems(data.items))
          /\ (pc = "fold" => FoodCallItems # << >> /\ FoodCallItems[Len(FoodCallItems)] = i)
          /\ (pc = "loop" => \A n \in DOMAIN FoodCallItems : FoodCallItems[n] < i)
          /\ (pc = "done" /\ response.status = 200 =>
                  FoodCallItems = GoodItems(data.items))
          /\ (pc = "done" /\ response.status # 200 => FoodCallItems = << >>))
    /\ (route \in {"consult", "chat"} =>
          /\ Len(calls) <= 1
          /\ \A n \in DOMAIN calls : calls[n].api = "gemini"
          /\ (pc = "call" => calls = << >>))

\* C12 witness: a request of two good items whose first food lookup failed
\* ended with the success payload after three calls: the weather lookup,
\* then one lookup per item.
C12_Witness ==
    /\ AnalyzeOk
    /\ Len(data.items) = 2
    /\ Len(calls) = 3
    /\ calls[2].api = "food" /\ ~calls[2].got.ok /\ calls[2].item = 1
    /\ calls[3].api = "food" /\ calls[3].item = 2

\* ---------------------------------------------------------------------------
\* Claims about the weather foods of the recommendations (checked under
\* SpecRecommend)
\* ---------------------------------------------------------------------------
\* an entry appended for a weather food: (name, "-", "-"); a table entry is a
\* pair (name, amount)
WeatherEntry(f) == << f, "-", "-" >>
IsWeatherEntry(e) == Len(e) = 3

\* the weather entries of a recommendations list, in its order
WeatherEntriesOf(r) == SelectSeq(r, IsWeatherEntry)

\* the weather entries a list must hold for k deficient nutrients and a
\* temperature above 30 or not
WeatherEntriesFor(k, hot) ==
    LET first == IF hot THEN "Cucumber" ELSE "Soup"
        second == IF hot THEN "Yogurt" ELSE "Eggs"
    IN  IF k <= 2 THEN << WeatherEntry(first), WeatherEntry(second) >>
        ELSE IF k = 3 THEN << WeatherEntry(first) >>
        ELSE << >>

\* the snapshot says more than 30 degrees
Above30(w) == w # NoWeather /\ "temp" \in DOMAIN w /\ w.temp > 300

\* C13: the weather entries of what recommend_foods returns are fixed by the
\* number k of deficient nutrients: both, after the table foods, when
\* k <= 2; only the first (Cucumber above 30 degrees, otherwise Soup), as the
\* tenth entry, when k = 3; none when k >= 4.  An analyze request obeys the
\* same rule, and one without a valid item has all five nutrients deficient
\* and no weather entry in its recommendations.
C13_WeatherFoodsByDeficiencyCount ==
    /\ (Recommended =>
          LET k == Cardinality(DeficKeysOf(defic) \cap Canonical)
          IN  /\ WeatherEntriesOf(rec) = WeatherEntriesFor(k, Above30(weather))
              /\ \A p \in DOMAIN rec :
                    IsWeatherEntry(rec[p]) => p > 3 * k
              /\ (k = 3 => rec[10] = WeatherEntry(IF Above30(weather) THEN "Cucumber"
                                                                       ELSE "Soup")))
    /\ (AnalyzeOk =>
          /\ WeatherEntriesOf(response.recommendations)
                = WeatherEntriesFor(Len(response.deficient), Above30(response.weather))
          /\ ((\A n \in DOMAIN data.items : BadItem(data.items[n])) =>
                /\ DeficKeysOf(response.deficient) = Canonical
                /\ Len(response.recommendations) = 10
                /\ WeatherEntriesOf(response.recommendations) = << >>))

\* C13 witness: three deficient nutrients at 35 degrees: nine table foods,
\* then Cucumber as the tenth and last entry; Yogurt is cut off.
C13_Witness ==
    /\ Recommended
    /\ DeficKeysOf(defic) = {"Protein", "Iron", "Calcium"}
    /\ Above30(weather)
    /\ Len(rec) = 10
    /\ rec[10] = WeatherEntry("Cucumber")
    /\ WeatherEntriesOf(rec) = << WeatherEntry("Cucumber") >>

\* an analyze request none of whose items is valid ended with the success
\* payload: ten table foods and no weather entry
C13_NoValidItems ==
    /\ AnalyzeOk
    /\ data.items # << >>
    /\ \A n \in DOMAIN data.items : BadItem(data.items[n])
    /\ WeatherEntriesOf(response.recommendations) = << >>

\* ---------------------------------------------------------------------------
\* Claims about the sum over several items of one food (checked under
\* SpecFloat)
\* ---------------------------------------------------------------------------
\* a request of two items of one food ended
TwoItemsDone == route = "analyze" /\ pc = "done" /\ Len(data.items) = 2

\* the totals of the request of one item of that food with the quantity
\* q1 + q2
JoinedTotals ==
    FoldItemF(<< >>, get_food_nutrients(FoodDatabase[ParseName(data.items[1].name)]),
              data.items[1].qty.num + data.items[2].qty.num)

\* x and y differ by at most 2^-50 of the larger
FClose(x, y) ==
    LET hi == IF FLess(x, y) THEN y ELSE x
        lo == IF FLess(x, y) THEN x ELSE y
        e == IF lo.m = << >> \/ hi.e < lo.e THEN hi.e ELSE lo.e
        dist == BigSub(BigShl(hi.m, hi.e - e), BigShl(lo.m, lo.e - e))
    IN  BigCmp(BigShl(dist, 50), BigShl(hi.m, hi.e - e)) <= 0

\* the amount of key k in a deficiency result, or -1 when k is not flagged
AmountOf(d, k) ==
    IF \E n \in DOMAIN d : d[n].key = k
    THEN d[CHOOSE n \in DOMAIN d : d[n].key = k].amount
    ELSE 0 - 1

\* a and b differ by at most 1
Within1(a, b) == a - b <= 1 /\ b - a <= 1

\* C11 as stated: two items of one food with quantities q1 and q2 yield the
\* same totals, the same displayed totals and the same deficiency result as
\* one item with quantity q1 + q2.
C11_SameTotalsAsJoined ==
    TwoItemsDone =>
        /\ totals_mg = JoinedTotals
        /\ response.total_nutrients = human_totalsF(JoinedTotals)
        /\ response.deficient = calculate_deficiencyF(JoinedTotals, gender)

\* C11 amended: the two requests yield totals for the same nutrients that are
\* equal up to floating-point rounding: each total is within 2^-50 of the
\* other, relatively, and each displayed total within 0.01; a nutrient is
\* deficient in both results or in neither unless its totals are that close
\* to 60% of its baseline, and where it is deficient in both the amounts
\* displayed are within 0.01.
C11_SameTotalsWithinRounding ==
    TwoItemsDone =>
        LET joined == JoinedTotals
            jshown == human_totalsF(joined)
            jdefic == calculate_deficiencyF(joined, gender)
        IN  /\ DOMAIN totals_mg = DOMAIN joined
            /\ \A k \in DOMAIN joined :
                  /\ FClose(totals_mg[k], joined[k])
                  /\ response.total_nutrients[k].unit = jshown[k].unit
                  /\ Within1(response.total_nutrients[k].amount, jshown[k].amount)
            /\ \A k \in Canonical :
                  LET here == AmountOf(response.deficient, k)
                      there == AmountOf(jdefic, k)
                      limit == FMul(BaselineF(gender, k), FFromMilli(600))
                  IN  /\ ((here < 0) # (there < 0) =>
                            /\ FClose(FGetTotal(totals_mg, k), limit)
                            /\ FClose(FGetTotal(joined, k), limit))
                      /\ (here >= 0 /\ there >= 0 => Within1(here, there))

\* C11 witness: 10 g and 1990 g of a food with 1.5 g of Protein per 100 g
\* total 29999.999999999996 mg, below 60% of the baseline of 50000 mg, so
\* Protein is deficient; one item of 2000 g totals 30000.0 mg and it is not.
C11_Witness ==
    /\ TwoItemsDone
    /\ data.items[1].name = << "b" >>
    /\ data.items[1].qty = Num(10) /\ data.items[2].qty = Num(1990)
    /\ FLess(totals_mg["Protein"], FFromInt(30000))
    /\ JoinedTotals["Protein"] = FFromInt(30000)
    /\ AmountOf(response.deficient, "Protein") >= 0
    /\ AmountOf(calculate_deficiencyF(JoinedTotals, gender), "Protein") < 0

====
